---- MODULE Spec2Model ----
(* Consistent-hash ring of src/Main.py (class ConsistentHash): the ring map *)
(* (hash position -> physical node), the list sorted_keys of positions, and  *)
(* the operations __init__, add_node, remove_node and get_node.              *)
EXTENDS Integers, Sequences, FiniteSets, TLC

\* ---------------------------------------------------------------- bounds
Replicas == 2      \* self.replicas of the instance under study
NumKeys == 1       \* lookup keys that are not vnode labels
NumPos == 4        \* size of the hash space standing for 0 .. 2^32 - 1
MaxLen == 4        \* cap on len(sorted_keys): add_node is not called beyond it
MaxInit == 1       \* longest initial node list handed to the constructor

KeyNames == <<"k1", "k2", "k3">>

\* node names the callers add and remove
Nodes == {"A", "B"}
Positions == 0..(NumPos - 1)

\* f"{node}:{i}"
vnode_key(node, i) == node \o ":" \o ToString(i)

VnodeLabels == {vnode_key(node, i) : node \in Nodes, i \in 0..(Replicas - 1)}
\* keys looked up
Keys == {KeyNames[k] : k \in 1..NumKeys}
Strings == VnodeLabels \cup Keys

\* results that are not node names
None == "None"
Ok == "ok"
KeyError == "KeyError"
ValueError == "ValueError"
IndexError == "IndexError"
Exceptions == {KeyError, ValueError, IndexError}

VARIABLES
    ring,          \* self.ring: position -> node
    sorted_keys,   \* self.sorted_keys
    md5,           \* the digest behind _hash: one fixed function, any function
                   \* of the strings into the position space (collisions included)
    members,       \* nodes added and not removed since (observer of the calls)
    last,          \* the last completed call: operation, argument, result
    prev,          \* ring, sorted_keys and members when that call started
    task           \* the add_node or remove_node call in progress, statement by
                   \* statement (used when lookups interleave with it), or Idle

vars == <<ring, sorted_keys, md5, members, last, prev, task>>

\* ---------------------------------------------------------------- helpers
EmptyRing == [p \in {} |-> None]

\* self._hash(key)
_hash(key) == md5[key]

\* self.ring[h] = node
RingSet(r, h, node) == [p \in (DOMAIN r) \cup {h} |-> IF p = h THEN node ELSE r[p]]

\* del self.ring[h]   (h in the map)
RingDel(r, h) == [p \in (DOMAIN r) \ {h} |-> r[p]]

\* list.sort(): insertion of one element into an ascending list
RECURSIVE InsertSorted(_, _)
InsertSorted(s, x) ==
    IF s = <<>> THEN <<x>>
    ELSE IF x <= Head(s) THEN <<x>> \o s
    ELSE <<Head(s)>> \o InsertSorted(Tail(s), x)

RECURSIVE Sort(_)
Sort(s) == IF s = <<>> THEN <<>> ELSE InsertSorted(Sort(Tail(s)), Head(s))

\* list.remove(h): drops the first occurrence (h occurs in s)
RECURSIVE ListRemove(_, _)
ListRemove(s, h) ==
    IF s = <<>> THEN <<>>
    ELSE IF Head(s) = h THEN Tail(s)
    ELSE <<Head(s)>> \o ListRemove(Tail(s), h)

Elems(s) == {s[j] : j \in 1..Len(s)}

\* bisect.bisect_left(a, x), 0-based result; lo and hi as in the library loop
RECURSIVE BisectLoop(_, _, _, _)
BisectLoop(a, x, lo, hi) ==
    IF lo < hi
    THEN LET mid == (lo + hi) \div 2
         IN IF a[mid + 1] < x
            THEN BisectLoop(a, x, mid + 1, hi)
            ELSE BisectLoop(a, x, lo, mid)
    ELSE lo

bisect_left(a, x) == BisectLoop(a, x, 0, Len(a))

\* ---------------------------------------------------------------- add_node
\* one iteration of the loop of add_node on st = [ring, sorted_keys]
AddIter(st, node, i) ==
    LET h == _hash(vnode_key(node, i))
    IN [ring |-> RingSet(st.ring, h, node),
        sorted_keys |-> Append(st.sorted_keys, h)]

\* the loop run over range(self.replicas - 1): the last vnode is left out
RECURSIVE AddLoop_short(_, _, _)
AddLoop_short(st, node, i) ==
    IF i >= Replicas - 1 THEN st
    ELSE AddLoop_short(AddIter(st, node, i), node, i + 1)

RECURSIVE AddLoop(_, _, _)
AddLoop(st, node, i) ==
    IF i >= Replicas THEN st ELSE AddLoop(AddIter(st, node, i), node, i + 1)

\* add_node(node): the loop, then self.sorted_keys.sort()
add_node(st, node) ==
    LET after == AddLoop(st, node, 0)
    IN [ring |-> after.ring, sorted_keys |-> Sort(after.sorted_keys)]

\* ---------------------------------------------------------------- remove_node
\* remove_node(node) from iteration i on; result is Ok when the loop runs to
\* its end, or the exception that ends the call with the state reached so far
RECURSIVE RemoveLoop(_, _, _)
RemoveLoop(st, node, i) ==
    IF i >= Replicas
    THEN [ring |-> st.ring, sorted_keys |-> st.sorted_keys, result |-> Ok]
    ELSE LET h == _hash(vnode_key(node, i))
         IN IF h \notin DOMAIN st.ring
            THEN \* del self.ring[h] raises
                 [ring |-> st.ring, sorted_keys |-> st.sorted_keys,
                  result |-> KeyError]
            ELSE IF h \notin Elems(st.sorted_keys)
            THEN \* self.sorted_keys.remove(h) raises, after the del
                 [ring |-> RingDel(st.ring, h), sorted_keys |-> st.sorted_keys,
                  result |-> ValueError]
            ELSE RemoveLoop([ring |-> RingDel(st.ring, h),
                             sorted_keys |-> ListRemove(st.sorted_keys, h)],
                            node, i + 1)

remove_node(st, node) == RemoveLoop(st, node, 0)

\* ---------------------------------------------------------------- get_node
\* emptiness test on the position list instead of the map
RingIsEmpty_list(st) == st.sorted_keys = <<>>

\* `if not self.ring`
RingIsEmpty(st) == DOMAIN st.ring = {}

\* get_node(key): the node returned, None, or the exception raised
get_node(st, key) ==
    IF RingIsEmpty(st) THEN None
    ELSE LET h == _hash(key)
             found == bisect_left(st.sorted_keys, h)
             idx == IF found = Len(st.sorted_keys) THEN 0 ELSE found
         IN IF idx >= Len(st.sorted_keys) THEN IndexError
            ELSE IF st.sorted_keys[idx + 1] \notin DOMAIN st.ring THEN KeyError
            ELSE st.ring[st.sorted_keys[idx + 1]]

\* ---------------------------------------------------------------- state machine
Cur == [ring |-> ring, sorted_keys |-> sorted_keys]
Snapshot == [ring |-> ring, sorted_keys |-> sorted_keys, members |-> members]

\* __init__(nodes, replicas): add_node for each node of the list, in order
RECURSIVE Construct(_, _)
Construct(st, nodes) ==
    IF nodes = <<>> THEN st ELSE Construct(add_node(st, Head(nodes)), Tail(nodes))

InitLists ==
    {nodes \in UNION {[1..n -> Nodes] : n \in 0..MaxInit} :
        Len(nodes) * Replicas <= MaxLen}

\* no mutation in progress
Idle ==
    [op |-> "idle", node |-> None, i |-> 0, pc |-> "idle",
     start |-> [ring |-> EmptyRing, sorted_keys |-> <<>>, members |-> {}]]

Init ==
    /\ md5 \in [Strings -> Positions]
    /\ \E nodes \in InitLists :
          LET st == Construct([ring |-> EmptyRing, sorted_keys |-> <<>>], nodes)
          IN /\ ring = st.ring
             /\ sorted_keys = st.sorted_keys
             /\ members = Elems(nodes)
    /\ last = [op |-> "__init__", arg |-> None, result |-> Ok]
    /\ prev = [ring |-> EmptyRing, sorted_keys |-> <<>>, members |-> {}]
    /\ task = Idle

AddNode(node) ==
    /\ Len(sorted_keys) + Replicas <= MaxLen
    /\ LET st == add_node(Cur, node)
       IN /\ ring' = st.ring
          /\ sorted_keys' = st.sorted_keys
    /\ members' = members \cup {node}
    /\ last' = [op |-> "add_node", arg |-> node, result |-> Ok]
    /\ prev' = Snapshot
    /\ UNCHANGED <<md5, task>>

RemoveNode(node) ==
    /\ LET st == remove_node(Cur, node)
       IN /\ ring' = st.ring
          /\ sorted_keys' = st.sorted_keys
          /\ members' = IF st.result = Ok THEN members \ {node} ELSE members
          /\ last' = [op |-> "remove_node", arg |-> node, result |-> st.result]
    /\ prev' = Snapshot
    /\ UNCHANGED <<md5, task>>

\* get_node calling bisect.insort_left in place of bisect.bisect_left: the
\* key's hash is inserted into sorted_keys by the lookup
GetNode_insort(key) ==
    /\ last' = [op |-> "get_node", arg |-> key, result |-> get_node(Cur, key)]
    /\ prev' = Snapshot
    /\ sorted_keys' = IF Len(sorted_keys) <= MaxLen
                      THEN InsertSorted(sorted_keys, _hash(key))
                      ELSE sorted_keys
    /\ UNCHANGED <<ring, md5, members, task>>

GetNode(key) ==
    /\ last' = [op |-> "get_node", arg |-> key, result |-> get_node(Cur, key)]
    /\ prev' = Snapshot
    /\ UNCHANGED <<ring, sorted_keys, md5, members, task>>

Next ==
    \/ \E node \in Nodes : AddNode(node)
    \/ \E node \in Nodes : RemoveNode(node)
    \/ \E key \in Keys : GetNode(key)

Spec == Init /\ [][Next]_vars

\* ---------------------------------------------------------------- unlocked callers
\* add_node and remove_node taken one statement at a time, with get_node calls
\* of other threads between the statements. Mutations do not overlap each
\* other; a get_node call runs as one step.
TaskHash == _hash(vnode_key(task.node, task.i))

\* the call in progress returns or raises: it becomes the last completed call
Finish(result) ==
    /\ last' = [op |-> task.op, arg |-> task.node, result |-> result]
    /\ prev' = task.start
    /\ task' = Idle

BeginAdd(node) ==
    /\ task = Idle
    /\ Len(sorted_keys) + Replicas <= MaxLen
    /\ task' = [op |-> "add_node", node |-> node, i |-> 0, pc |-> "set",
                start |-> Snapshot]
    /\ UNCHANGED <<ring, sorted_keys, md5, members, last, prev>>

\* self.ring[h] = node
AddSetStep ==
    /\ task.op = "add_node" /\ task.pc = "set"
    /\ ring' = RingSet(ring, TaskHash, task.node)
    /\ task' = [task EXCEPT !.pc = "append"]
    /\ UNCHANGED <<sorted_keys, md5, members, last, prev>>

\* self.sorted_keys.append(h), and the next iteration or the end of the loop
AddAppendStep ==
    /\ task.op = "add_node" /\ task.pc = "append"
    /\ sorted_keys' = Append(sorted_keys, TaskHash)
    /\ task' = [task EXCEPT !.i = task.i + 1,
                            !.pc = IF task.i + 1 < Replicas THEN "set" ELSE "sort"]
    /\ UNCHANGED <<ring, md5, members, last, prev>>

\* self.sorted_keys.sort(), and the return
AddSortStep ==
    /\ task.op = "add_node" /\ task.pc = "sort"
    /\ sorted_keys' = Sort(sorted_keys)
    /\ members' = members \cup {task.node}
    /\ Finish(Ok)
    /\ UNCHANGED <<ring, md5>>

BeginRemove(node) ==
    /\ task = Idle
    /\ task' = [op |-> "remove_node", node |-> node, i |-> 0, pc |-> "del",
                start |-> Snapshot]
    /\ UNCHANGED <<ring, sorted_keys, md5, members, last, prev>>

\* del self.ring[h]
RemoveDelStep ==
    /\ task.op = "remove_node" /\ task.pc = "del"
    /\ IF TaskHash \in DOMAIN ring
       THEN /\ ring' = RingDel(ring, TaskHash)
            /\ task' = [task EXCEPT !.pc = "remove"]
            /\ UNCHANGED <<last, prev>>
       ELSE /\ Finish(KeyError)
            /\ UNCHANGED ring
    /\ UNCHANGED <<sorted_keys, md5, members>>

\* self.sorted_keys.remove(h), and the next iteration or the return
RemoveListStep ==
    /\ task.op = "remove_node" /\ task.pc = "remove"
    /\ IF TaskHash \notin Elems(sorted_keys)
       THEN /\ Finish(ValueError)
            /\ UNCHANGED <<sorted_keys, members>>
       ELSE /\ sorted_keys' = ListRemove(sorted_keys, TaskHash)
            /\ IF task.i + 1 < Replicas
               THEN /\ task' = [task EXCEPT !.i = task.i + 1, !.pc = "del"]
                    /\ UNCHANGED <<members, last, prev>>
               ELSE /\ members' = members \ {task.node}
                    /\ Finish(Ok)
    /\ UNCHANGED <<ring, md5>>

NextSteps ==
    \/ \E node \in Nodes : BeginAdd(node)
    \/ AddSetStep
    \/ AddAppendStep
    \/ AddSortStep
    \/ \E node \in Nodes : BeginRemove(node)
    \/ RemoveDelStep
    \/ RemoveListStep
    \/ \E key \in Keys : GetNode(key)

SpecSteps == Init /\ [][NextSteps]_vars

TypeOK ==
    /\ DOMAIN ring \subseteq Positions
    /\ \A p \in DOMAIN ring : ring[p] \in Nodes
    /\ sorted_keys \in Seq(Positions)
    /\ Len(sorted_keys) <= MaxLen
    /\ members \subseteq Nodes

\* ---------------------------------------------------------------- properties
PrevSt == [ring |-> prev.ring, sorted_keys |-> prev.sorted_keys]
Mutations == {"__init__", "add_node", "remove_node"}
Completed == last.result \notin Exceptions
Min(S) == CHOOSE x \in S : \A y \in S : x <= y
Max(S) == CHOOSE x \in S : \A y \in S : x >= y
Occupied(st) == DOMAIN st.ring

\* C1: after every public operation that completes, the set of values in
\* sorted_keys equals the set of keys of the ring map.
C1_SortedKeysMatchRing == Completed => Elems(sorted_keys) = DOMAIN ring

\* C2: on a non-empty ring get_node returns a node that is currently a member
\* of the ring; it never returns a removed node and never fails.
C2_GetNodeReturnsMember ==
    (last.op = "get_node" /\ ~RingIsEmpty(PrevSt)) => last.result \in members

\* C3: add_node(X) followed immediately by remove_node(X) restores the ring map
\* and sorted_keys to what they were before the add.
C3_AddThenRemoveRestores ==
    [][(last.op = "add_node" /\ last'.op = "remove_node" /\ last'.arg = last.arg)
        => (ring' = prev.ring /\ sorted_keys' = prev.sorted_keys)]_vars

\* C4: removing a member node C changes the owner only of keys that get_node
\* mapped to C before: a key mapped to another node keeps that node.
C4_RemoveMovesOnlyOwnKeys ==
    (last.op = "remove_node" /\ last.result = Ok /\ last.arg \in prev.members)
        => \A key \in Keys :
              get_node(PrevSt, key) \in Nodes \ {last.arg}
                  => get_node(Cur, key) = get_node(PrevSt, key)

\* C5: on a non-empty ring get_node(key) returns the owner of the smallest
\* occupied position p >= hash(key), whenever such a position exists.
C5_SuccessorOwner ==
    (last.op = "get_node" /\ ~RingIsEmpty(Cur))
        => LET h == _hash(last.arg)
               atOrAfter == {p \in Occupied(Cur) : p >= h}
           IN atOrAfter # {} => last.result = ring[Min(atOrAfter)]

\* C6: on a non-empty ring, a key whose hash is greater than the maximum
\* occupied position is given the owner of the minimum occupied position.
C6_WrapAround ==
    (last.op = "get_node" /\ ~RingIsEmpty(Cur))
        => (_hash(last.arg) > Max(Occupied(Cur))
               => last.result = ring[Min(Occupied(Cur))])

\* C7: after every completed mutation sorted_keys is ascending and holds no
\* value twice.
C7_SortedNoDuplicates ==
    (last.op \in Mutations /\ Completed)
        => \A j \in 1..(Len(sorted_keys) - 1) : sorted_keys[j] < sorted_keys[j + 1]

\* C8: add_node of a node already present is rejected with DuplicateNode and
\* leaves the ring map and sorted_keys as they were.
C8_DuplicateAddRejected ==
    (last.op = "add_node" /\ last.arg \in prev.members)
        => /\ last.result = "DuplicateNode"
           /\ ring = prev.ring
           /\ sorted_keys = prev.sorted_keys

\* C9: remove_node of a node that is not present reports an error instead of
\* completing normally.
C9_RemoveAbsentReportsError ==
    (/\ last.op = "remove_node"
     /\ last.arg \notin prev.members
     /\ \A p \in DOMAIN prev.ring : prev.ring[p] # last.arg)
        => last.result \in Exceptions

\* C10: get_node returns None, without failing, whenever the ring map has no
\* positions, and so whenever every added node has been removed.
C10_EmptyRingReturnsNone ==
    (last.op = "get_node" /\ (RingIsEmpty(Cur) \/ members = {}))
        => last.result = None

\* get_node has answered on a ring whose nodes were added and all removed
C10_Witness ==
    /\ last.op = "get_node"
    /\ last.result = None
    /\ RingIsEmpty(Cur)
    /\ members = {}
    /\ sorted_keys # <<>>

\* positions of the vnode labels of a node
NodePositions(node) == {_hash(vnode_key(node, i)) : i \in 0..(Replicas - 1)}

\* C11: when two distinct vnode labels hash to one position, add_node does not
\* silently overwrite the node recorded there: the assignment is preserved, or
\* the call reports the collision.
C11_NoSilentOverwrite ==
    (last.op = "add_node" /\ last.arg \notin prev.members)
        => \/ last.result # Ok
           \/ \A p \in DOMAIN prev.ring : p \in DOMAIN ring /\ ring[p] = prev.ring[p]

\* the labels of the node hash to Replicas positions, none of them occupied
FreshPositions(node, st) ==
    /\ Cardinality(NodePositions(node)) = Replicas
    /\ NodePositions(node) \cap Occupied(st) = {}

\* C12: add_node of a node not present, whose positions are pairwise distinct
\* and not occupied, grows the ring map and sorted_keys by exactly Replicas
\* and maps each new position to the node.
C12_AddGrowsByReplicas ==
    (/\ last.op = "add_node"
     /\ last.arg \notin prev.members
     /\ FreshPositions(last.arg, PrevSt))
        => /\ Cardinality(DOMAIN ring) = Cardinality(DOMAIN prev.ring) + Replicas
           /\ Len(sorted_keys) = Len(prev.sorted_keys) + Replicas
           /\ \A p \in NodePositions(last.arg) : p \in DOMAIN ring /\ ring[p] = last.arg
           /\ \A p \in DOMAIN prev.ring : p \in DOMAIN ring /\ ring[p] = prev.ring[p]

\* a second node has been added on fresh positions to a ring holding another
C12_Witness ==
    /\ last.op = "add_node"
    /\ last.arg \notin prev.members
    /\ FreshPositions(last.arg, PrevSt)
    /\ prev.members # {}
    /\ ~RingIsEmpty(PrevSt)
    /\ Cardinality(DOMAIN ring) = Cardinality(DOMAIN prev.ring) + Replicas

\* C13: after remove_node succeeds on the only node present, the ring map has
\* no entries and sorted_keys has length 0.
C13_RemoveLastEmpties ==
    (last.op = "remove_node" /\ last.result = Ok /\ prev.members = {last.arg})
        => (DOMAIN ring = {} /\ Len(sorted_keys) = 0)

\* C15: add_node(X) moves keys only onto X: after it, get_node gives every key
\* the node it gave before the add, or X.
C15_AddMovesOnlyOntoNew ==
    last.op = "add_node"
        => \A key \in Keys :
              get_node(Cur, key) \in {get_node(PrevSt, key), last.arg}

\* C16: a remove_node call that ends in an error leaves the ring map and
\* sorted_keys as they were before the call.
C16_FailedRemoveChangesNothing ==
    (last.op = "remove_node" /\ last.result \in Exceptions)
        => (ring = prev.ring /\ sorted_keys = prev.sorted_keys)

\* C17: the ring after adding distinct nodes does not depend on the order of
\* the add_node calls, nor on the order of the constructor's node list.
C17_AddOrderIrrelevant ==
    \A a, b \in Nodes :
        a # b =>
            /\ add_node(add_node(Cur, a), b) = add_node(add_node(Cur, b), a)
            /\ Construct([ring |-> EmptyRing, sorted_keys |-> <<>>], <<a, b>>)
                 = Construct([ring |-> EmptyRing, sorted_keys |-> <<>>], <<b, a>>)

\* C18: get_node is a pure read: a get_node step leaves the ring map and
\* sorted_keys unchanged, and repeats the result of a get_node call for the
\* same key that came just before it.
C18_GetNodeIsPureRead ==
    [][last'.op = "get_node"
         => /\ ring' = ring
            /\ sorted_keys' = sorted_keys
            /\ (last.op = "get_node" /\ last.arg = last'.arg)
                  => last'.result = last.result]_vars

\* get_node has returned a node of a non-empty ring that it left as it was
C18_Witness ==
    /\ last.op = "get_node"
    /\ last.result \in Nodes
    /\ ring = prev.ring
    /\ sorted_keys = prev.sorted_keys
    /\ ~RingIsEmpty(Cur)

IsSorted(s) == \A j \in 1..(Len(s) - 1) : s[j] <= s[j + 1]

\* what a lookup relies on: an ascending list whose positions are in the map
LookupStateOk == IsSorted(sorted_keys) /\ Elems(sorted_keys) \subseteq DOMAIN ring

\* the statement-by-statement calls end in the state the whole calls end in
StepsAgree ==
    (task = Idle /\ last.op = "add_node" => Cur = add_node(PrevSt, last.arg))
    /\ (task = Idle /\ last.op = "remove_node"
           => LET r == remove_node(PrevSt, last.arg)
              IN Cur = [ring |-> r.ring, sorted_keys |-> r.sorted_keys]
                 /\ last.result = r.result)

\* C14 (serialized half): a get_node call made while no add_node or remove_node
\* is in progress never observes sorted_keys unsorted or holding a position
\* missing from the ring map.
C14_SerializedGetSeesConsistent ==
    (last.op = "get_node" /\ task = Idle) => LookupStateOk

\* C14 (interleaved half): the observation the claim says an unlocked get_node
\* can make between the statements of a mutation: the list unsorted or holding
\* a position missing from the map, and a result that is an exception or not
\* the owner of the successor position.
C14_InterleavedObservation ==
    /\ last.op = "get_node"
    /\ task # Idle
    /\ ~LookupStateOk
    /\ ~RingIsEmpty(Cur)
    /\ LET h == _hash(last.arg)
           atOrAfter == {p \in Occupied(Cur) : p >= h}
           succ == IF atOrAfter # {} THEN Min(atOrAfter) ELSE Min(Occupied(Cur))
       IN last.result # ring[succ]

C14_NeverInterleavedObservation == ~C14_InterleavedObservation

====
